---- MODULE Spec2Model ----
(***************************************************************************)
(* Model of router-bridge/js-src/do_introspect.ts: the script the host     *)
(* runs with the globals sdl, queries, bridge and done.  One behaviour of  *)
(* the model is one run of the script body, step by step.                  *)
(*                                                                         *)
(* bridge.batchIntrospect and done are host-supplied (declared, not        *)
(* defined, in the script).  Under Spec the capability is any function of  *)
(* its declared shape: it returns some array or raises some value.  Under  *)
(* SpecEngine it is the parse-once/evaluate-many engine of the             *)
(* specification's sections 4.1-4.3.  done records its argument and        *)
(* returns.  Under SpecTwice the host runs the script a second time.       *)
(*                                                                         *)
(* SpecMigration models the entity-migration runbooks of the federation    *)
(* guide (Rover CLI composition and managed federation), one action per    *)
(* documented step.                                                        *)
(***************************************************************************)
EXTENDS Integers, Sequences, FiniteSets, TLC

VARIABLES sdl, queries, pc, calls, capResult, delivered

\* What the host keeps across two runs of the script: the inputs and the
\* outcomes of the run before this one.
VARIABLES previous

\* The entity migration of the federation guide (moving the Bill entity from
\* the Payments subgraph to the Billing subgraph): the runbook followed and
\* the number of its steps taken, the subgraph schemas being edited, the
\* subgraphs as deployed, the schemas published to the registry, the latest
\* valid supergraph Uplink serves, the supergraph composed with Rover, the
\* supergraph the gateway uses, and what became of the Bill queries so far.
VARIABLES runbook, step, local, deployed, published, uplink, composed,
          gateway, billQueries

scriptVars == <<sdl, queries, pc, calls, capResult, delivered, previous>>

migrationVars ==
  <<runbook, step, local, deployed, published, uplink, composed, gateway,
    billQueries>>

vars == <<scriptVars, migrationVars>>

\* What no statement of the script touches.
outside == <<previous, migrationVars>>

(* ---------------------------- bounds ----------------------------------- *)

MaxSdlLen == 2

MaxQueries == 2

MaxRequests == 4

(* ------------------------- JavaScript values --------------------------- *)

\* A JS object, described by its own keys and the values of the two keys the
\* protocol looks at.
JSObject(fields, message, data) ==
  [fields |-> fields, message |-> message, data |-> data]

NoObject == JSObject({}, "", "")

ErrorRecord(message) == JSObject({"message"}, message, "")

IntrospectionResult(data) == JSObject({"data"}, "", data)

\* A JS value: an array (items), a single object (self), a string or undefined.
JSArray(items) == [kind |-> "array", items |-> items, self |-> NoObject]

JSSingle(obj) == [kind |-> "object", items |-> <<>>, self |-> obj]

JSString == [kind |-> "string", items |-> <<>>, self |-> NoObject]

Undefined == [kind |-> "undefined", items |-> <<>>, self |-> NoObject]

\* Sequences over S of length at most n.
SeqUpTo(S, n) == UNION {[1..k -> S] : k \in 0..n}

(* ------------------------------ inputs --------------------------------- *)

\* The pieces an SDL text is made of: whitespace, two well-formed type
\* definitions and a malformed one.
SdlTokens ==
  {" ", "type Query { hello: String }",
   "type Product { upc: String! name: String }", "type {"}

\* declare var sdl: string -- a string, or missing (undefined).
DefinedSdl(text) == [defined |-> TRUE, text |-> text]

MissingSdl == [defined |-> FALSE, text |-> <<>>]

SdlValues == {MissingSdl} \cup {DefinedSdl(t) : t \in SeqUpTo(SdlTokens, MaxSdlLen)}

QueryTexts ==
  {"{ __type(name: 'Query') { name } }",
   "{ __type(name: 'Product') { name } }",
   "{ __type(name: 'DoesNotExist') { name } }",
   "{ hello }"}

QueryLists == SeqUpTo(QueryTexts, MaxQueries)

\* A check that trims the text before testing it.
FalsyTrimmed(s) ==
  ~s.defined \/ \A i \in 1..Len(s.text) : s.text[i] = " "

\* JS truthiness of sdl, negated: !sdl holds for undefined and for "".
Falsy(s) == ~s.defined \/ Len(s.text) = 0

(* ------------------------------ outcomes ------------------------------- *)

\* The object literals handed to done: { Ok: v } and { Err: v }.
OkOutcome(v) == [keys |-> {"Ok"}, Ok |-> v, Err |-> Undefined]

\* An error outcome that also carries an (empty) Ok list.
ErrOutcomeWithOk(v) == [keys |-> {"Ok", "Err"}, Ok |-> JSArray(<<>>), Err |-> v]

ErrOutcome(v) == [keys |-> {"Err"}, Ok |-> Undefined, Err |-> v]

SdlEmptyMessage == "Error in JS-Rust-land: SDL is empty."

\* The record handed over bare, not in a list.
SdlEmptyErrorBare == JSSingle(ErrorRecord(SdlEmptyMessage))

SdlEmptyError == JSArray(<<ErrorRecord(SdlEmptyMessage)>>)

\* What a call of the capability came to.
Returned(v) == [kind |-> "returned", value |-> v]

Raised(v) == [kind |-> "raised", value |-> v]

NotCalled == [kind |-> "none", value |-> Undefined]

(* ------------------- the host capability, any function ----------------- *)

\* Values bridge.batchIntrospect may return: arrays of results, of any length.
HostData == {"null", "Query"}

HostReturns ==
  {JSArray(items) :
     items \in SeqUpTo({IntrospectionResult(d) : d \in HostData}, MaxQueries)}

\* Values it may raise; JavaScript lets any value be thrown: a list of error
\* records, an Error object, an empty list, a list holding a record without a
\* message, a string, undefined.
HostRaises ==
  {JSArray(<<ErrorRecord("Syntax Error")>>),
   JSArray(<<ErrorRecord("Syntax Error"), ErrorRecord("Unknown type")>>),
   JSSingle(ErrorRecord("internal fault")),
   JSArray(<<>>),
   JSArray(<<JSObject({"code"}, "", "")>>),
   JSString,
   Undefined}

HostOutcomes(s, qs) ==
  {Returned(v) : v \in HostReturns} \cup {Raised(v) : v \in HostRaises}

(* ------------- the host capability, as sections 4.1-4.3 give it -------- *)

TypeNameOf(token) ==
  CASE token = "type Query { hello: String }" -> "Query"
    [] token = "type Product { upc: String! name: String }" -> "Product"
    [] OTHER -> ""

\* The text without its whitespace.
RECURSIVE Strip(_)
Strip(text) ==
  IF text = <<>> THEN <<>>
  ELSE IF Head(text) = " " THEN Strip(Tail(text))
       ELSE <<Head(text)>> \o Strip(Tail(text))

\* 4.1 "an empty or whitespace-only document"
Blank(s) == ~s.defined \/ \A i \in 1..Len(s.text) : s.text[i] = " "

\* 4.1 parse(sdl) -> SchemaDocument | ParseError.  A SchemaDocument is the set
\* of the type names it defines.  A blank document is rejected before parsing.
parse(s) ==
  LET body == Strip(s.text) IN
  IF Blank(s)
    THEN [ok |-> FALSE, types |-> {}, error |-> ErrorRecord("SDL is empty or blank")]
  ELSE IF \E i \in 1..Len(body) : TypeNameOf(body[i]) = ""
    THEN [ok |-> FALSE, types |-> {}, error |-> ErrorRecord("Syntax Error")]
  ELSE IF \E i, j \in 1..Len(body) : i # j /\ body[i] = body[j]
    THEN [ok |-> FALSE, types |-> {}, error |-> ErrorRecord("Duplicate type")]
  ELSE [ok |-> TRUE, types |-> {TypeNameOf(body[i]) : i \in 1..Len(body)},
        error |-> NoObject]

RequestedType(q) ==
  CASE q = "{ __type(name: 'Query') { name } }" -> "Query"
    [] q = "{ __type(name: 'Product') { name } }" -> "Product"
    [] q = "{ __type(name: 'DoesNotExist') { name } }" -> "DoesNotExist"
    [] OTHER -> ""

\* 4.2 evaluate(schema, query) -> IntrospectionResult | EvalError.  A type the
\* schema lacks evaluates to null; a non-introspection root field is an error.
evaluate(schema, q) ==
  IF RequestedType(q) = ""
    THEN [ok |-> FALSE, result |-> NoObject,
          error |-> ErrorRecord("not an introspection query")]
  ELSE IF RequestedType(q) \in schema.types
    THEN [ok |-> TRUE, result |-> IntrospectionResult(RequestedType(q)),
          error |-> NoObject]
  ELSE [ok |-> TRUE, result |-> IntrospectionResult("null"), error |-> NoObject]

\* 4.3 run(sdl, queries): parse once, evaluate each query in input order,
\* all-or-nothing, failing on the first query that fails.
run(s, qs) ==
  LET schema == parse(s)
      failed == {i \in 1..Len(qs) : ~evaluate(schema, qs[i]).ok}
      first == CHOOSE i \in failed : \A j \in failed : i <= j
  IN  IF ~schema.ok THEN Raised(JSArray(<<schema.error>>))
      ELSE IF failed # {} THEN Raised(JSArray(<<evaluate(schema, qs[first]).error>>))
      ELSE Returned(JSArray([i \in 1..Len(qs) |-> evaluate(schema, qs[i]).result]))

EngineOutcomes(s, qs) == {run(s, qs)}

(* ------------------------------ the script ----------------------------- *)

\* No run before this one.
NoPrevious ==
  [ran |-> FALSE, sdl |-> MissingSdl, queries |-> <<>>, delivered |-> <<>>]

(* --------------------------- entity migration ------------------------- *)

Subgraphs == {"Payments", "Billing"}

\* A subgraph, as far as Bill goes: does its schema define the entity, and
\* does it have the resolvers for it.
WithBill == [def |-> TRUE, resolvers |-> TRUE]

WithoutBill == [def |-> FALSE, resolvers |-> FALSE]

\* Before the migration: Bill is defined and resolved in Payments only, and
\* every supergraph says so.
BeforeMigration ==
  /\ step = 0
  /\ local = [g \in Subgraphs |-> IF g = "Payments" THEN WithBill ELSE WithoutBill]
  /\ deployed = [g \in Subgraphs |-> IF g = "Payments" THEN WithBill ELSE WithoutBill]
  /\ published = [g \in Subgraphs |-> g = "Payments"]
  /\ uplink = "Payments"
  /\ composed = "none"
  /\ gateway = "Payments"
  /\ billQueries = <<>>

\* The globals the host sets before it runs the script.
Init ==
  /\ sdl \in SdlValues
  /\ queries \in QueryLists
  /\ pc = "check"
  /\ calls = <<>>
  /\ capResult = NotCalled
  /\ delivered = <<>>
  /\ previous = NoPrevious
  /\ runbook = "none"
  /\ BeforeMigration

\* done(operationResult): the host takes the outcome.
done(outcome) == delivered' = Append(delivered, outcome)

\* if (!sdl) { done({ Err: [...] }); }  -- the block has no exit: control
\* continues at the try statement either way.
CheckSdl ==
  /\ pc = "check"
  /\ IF Falsy(sdl) THEN done(ErrOutcome(SdlEmptyError))
                   ELSE UNCHANGED delivered
  /\ pc' = "try"
  /\ UNCHANGED <<sdl, queries, calls, capResult>>
  /\ UNCHANGED outside

\* A call that passes the queries in reverse order.
CallArgumentsReversed ==
  [sdl |-> sdl,
   queries |-> [i \in 1..Len(queries) |-> queries[Len(queries) + 1 - i]]]

\* A call that passes the queries of the run before.
CallArgumentsStale == [sdl |-> sdl, queries |-> previous.queries]

\* The arguments of the call: (sdl, queries).
CallArguments == [sdl |-> sdl, queries |-> queries]

\* const introspected = bridge.batchIntrospect(sdl, queries);
\* outcomes is what the capability may come to on these arguments.
Call(outcomes) ==
  /\ pc = "try"
  /\ calls' = Append(calls, CallArguments)
  /\ \E r \in outcomes : capResult' = r
  /\ pc' = IF capResult'.kind = "returned" THEN "ok" ELSE "catch"
  /\ UNCHANGED <<sdl, queries, delivered>>
  /\ UNCHANGED outside

CallBatchIntrospect ==
  Call(HostOutcomes(CallArguments.sdl, CallArguments.queries))

CallEngine ==
  Call(EngineOutcomes(CallArguments.sdl, CallArguments.queries))

\* A success report that loses the last result.
DoneOkDropsLast ==
  /\ pc = "ok"
  /\ done(OkOutcome(JSArray(
       IF capResult.value.items = <<>> THEN <<>>
       ELSE SubSeq(capResult.value.items, 1, Len(capResult.value.items) - 1))))
  /\ pc' = "end"
  /\ UNCHANGED <<sdl, queries, calls, capResult>>
  /\ UNCHANGED outside

\* done({ Ok: introspected });
DoneOk ==
  /\ pc = "ok"
  /\ done(OkOutcome(capResult.value))
  /\ pc' = "end"
  /\ UNCHANGED <<sdl, queries, calls, capResult>>
  /\ UNCHANGED outside

\* A catch block that lets the failure go on instead of reporting it.
CatchRethrow ==
  /\ pc = "catch"
  /\ pc' = "uncaught"
  /\ UNCHANGED <<sdl, queries, calls, capResult, delivered>>
  /\ UNCHANGED outside

\* A catch block that tries the capability once more before reporting.
CatchRetry ==
  /\ pc = "catch"
  /\ IF Len(calls) < 2
       THEN pc' = "try" /\ UNCHANGED delivered
       ELSE pc' = "end" /\ done(ErrOutcome(capResult.value))
  /\ UNCHANGED <<sdl, queries, calls, capResult>>
  /\ UNCHANGED outside

\* catch (err) { done({ Err: err }); }
CatchDone ==
  /\ pc = "catch"
  /\ done(ErrOutcome(capResult.value))
  /\ pc' = "end"
  /\ UNCHANGED <<sdl, queries, calls, capResult>>
  /\ UNCHANGED outside

Next == CheckSdl \/ CallBatchIntrospect \/ DoneOk \/ CatchDone

Spec == Init /\ [][Next]_vars

NextEngine == CheckSdl \/ CallEngine \/ DoneOk \/ CatchDone

SpecEngine == Init /\ [][NextEngine]_vars

\* The host runs the script a second time, on the same schema text and any
\* list of queries (the same list among them), with fresh globals; it keeps
\* what the first run was given and what it delivered.
Reinvoke ==
  /\ pc = "end"
  /\ ~previous.ran
  /\ previous' = [ran |-> TRUE, sdl |-> sdl, queries |-> queries,
                  delivered |-> delivered]
  /\ sdl' = sdl
  /\ queries' \in QueryLists
  /\ pc' = "check"
  /\ calls' = <<>>
  /\ capResult' = NotCalled
  /\ delivered' = <<>>
  /\ UNCHANGED migrationVars

NextTwice == CheckSdl \/ CallEngine \/ DoneOk \/ CatchDone \/ Reinvoke

SpecTwice == Init /\ [][NextTwice]_vars

\* The documented order of the steps of each runbook.
RoverOrder ==
  <<"DefineBillInBilling", "DefineResolvers", "DeployBilling",
    "RemoveBillFromPayments", "ComposeSupergraph", "DeployGateway",
    "DeployPayments">>

ManagedOrder ==
  <<"DefineBillInBilling", "PublishBilling", "DefineResolvers",
    "DeployBilling", "RemoveBillFromPayments", "DeployPayments">>

Order ==
  CASE runbook = "rover" -> RoverOrder
    [] runbook = "managed" -> ManagedOrder
    [] OTHER -> <<>>

\* The step that comes next.
NextStep == IF step < Len(Order) THEN Order[step + 1] ELSE "done"

\* Composition: an entity must originate in exactly one subgraph.  defines[g]
\* tells whether the schema of g defines Bill.
Compose(defines) ==
  IF Cardinality({g \in Subgraphs : defines[g]}) = 1
    THEN CHOOSE g \in Subgraphs : defines[g]
    ELSE "error"

\* A publish makes the registry compose; Uplink goes on serving the most
\* recent valid supergraph when composition fails.
Launch(defines) ==
  IF Compose(defines) = "error" THEN uplink ELSE Compose(defines)

\* The migration is under way; the script is not part of it.
InitMigration ==
  /\ sdl = MissingSdl
  /\ queries = <<>>
  /\ pc = "idle"
  /\ calls = <<>>
  /\ capResult = NotCalled
  /\ delivered = <<>>
  /\ previous = NoPrevious
  /\ runbook \in {"rover", "managed"}
  /\ BeforeMigration

\* Both runbooks, step 1: define Bill in the Billing subgraph's schema.
DefineBillInBilling ==
  /\ NextStep = "DefineBillInBilling"
  /\ local' = [local EXCEPT !["Billing"].def = TRUE]
  /\ step' = step + 1
  /\ UNCHANGED <<runbook, deployed, published, uplink, composed, gateway, billQueries>>
  /\ UNCHANGED scriptVars

\* Managed federation, step 2: publish the Billing subgraph schema to Apollo.
PublishBilling ==
  /\ NextStep = "PublishBilling"
  /\ published' = [published EXCEPT !["Billing"] = local["Billing"].def]
  /\ uplink' = Launch(published')
  /\ step' = step + 1
  /\ UNCHANGED <<runbook, local, deployed, composed, gateway, billQueries>>
  /\ UNCHANGED scriptVars

\* Rover step 2, managed step 3: define the Bill resolvers in Billing.
DefineResolvers ==
  /\ NextStep = "DefineResolvers"
  /\ local' = [local EXCEPT !["Billing"].resolvers = TRUE]
  /\ step' = step + 1
  /\ UNCHANGED <<runbook, deployed, published, uplink, composed, gateway, billQueries>>
  /\ UNCHANGED scriptVars

\* Rover step 3, managed step 4: deploy the updated Billing subgraph.
DeployBilling ==
  /\ NextStep = "DeployBilling"
  /\ deployed' = [deployed EXCEPT !["Billing"] = local["Billing"]]
  /\ step' = step + 1
  /\ UNCHANGED <<runbook, local, published, uplink, composed, gateway, billQueries>>
  /\ UNCHANGED scriptVars

\* Rover step 4, managed step 5: remove Bill and its resolvers from Payments
\* (not deployed yet).
RemoveBillFromPayments ==
  /\ NextStep = "RemoveBillFromPayments"
  /\ local' = [local EXCEPT !["Payments"] = WithoutBill]
  /\ step' = step + 1
  /\ UNCHANGED <<runbook, deployed, published, uplink, composed, gateway, billQueries>>
  /\ UNCHANGED scriptVars

\* Rover step 5: rover supergraph compose, on the edited schemas.
ComposeSupergraph ==
  /\ NextStep = "ComposeSupergraph"
  /\ composed' = Compose([g \in Subgraphs |-> local[g].def])
  /\ step' = step + 1
  /\ UNCHANGED <<runbook, local, deployed, published, uplink, gateway, billQueries>>
  /\ UNCHANGED scriptVars

\* Rover step 6: assuming CI completes, deploy the gateway with the new
\* supergraph schema.
DeployGateway ==
  /\ NextStep = "DeployGateway"
  /\ composed \in Subgraphs
  /\ gateway' = composed
  /\ step' = step + 1
  /\ UNCHANGED <<runbook, local, deployed, published, uplink, composed, billQueries>>
  /\ UNCHANGED scriptVars

\* Rover step 7, managed step 6: deploy the updated Payments subgraph.  With
\* managed federation this resolves the composition error: Apollo composes
\* an updated supergraph, which the gateway obtains when it polls.
DeployPayments ==
  /\ NextStep = "DeployPayments"
  /\ deployed' = [deployed EXCEPT !["Payments"] = local["Payments"]]
  /\ IF runbook = "managed"
       THEN /\ published' = [published EXCEPT !["Payments"] = local["Payments"].def]
            /\ uplink' = Launch(published')
       ELSE UNCHANGED <<published, uplink>>
  /\ step' = step + 1
  /\ UNCHANGED <<runbook, local, composed, gateway, billQueries>>
  /\ UNCHANGED scriptVars

\* Managed federation: the gateway polls Uplink, at any moment, and takes the
\* supergraph it serves.
GatewayPoll ==
  /\ runbook = "managed"
  /\ gateway' = uplink
  /\ UNCHANGED <<runbook, step, local, deployed, published, uplink, composed, billQueries>>
  /\ UNCHANGED scriptVars

\* Can the subgraph g resolve Bill as it is deployed now.
Resolves(g) == deployed[g].def /\ deployed[g].resolvers

\* A client asks for a Bill, at any moment: the gateway sends the query to the
\* subgraph its supergraph gives as the origin of Bill.
ResolveBill ==
  /\ runbook \in {"rover", "managed"}
  /\ Len(billQueries) < MaxRequests
  /\ billQueries' = Append(billQueries, IF Resolves(gateway) THEN gateway ELSE "failed")
  /\ UNCHANGED <<runbook, step, local, deployed, published, uplink, composed, gateway>>
  /\ UNCHANGED scriptVars

NextMigration ==
  \/ DefineBillInBilling \/ PublishBilling \/ DefineResolvers \/ DeployBilling
  \/ RemoveBillFromPayments \/ ComposeSupergraph \/ DeployGateway
  \/ DeployPayments \/ GatewayPoll \/ ResolveBill

SpecMigration == InitMigration /\ [][NextMigration]_vars

\* pc = "uncaught" stands for an exception leaving the script; pc = "idle"
\* for the script not being run.
TypeOK ==
  /\ sdl \in SdlValues
  /\ queries \in QueryLists
  /\ pc \in {"check", "try", "ok", "catch", "end", "uncaught", "idle"}
  /\ Len(calls) <= 1
  /\ \A i \in 1..Len(calls) : calls[i].sdl \in SdlValues /\ calls[i].queries \in QueryLists
  /\ capResult.kind \in {"none", "returned", "raised"}
  /\ Len(delivered) <= 2
  /\ previous.ran \in BOOLEAN
  /\ runbook \in {"none", "rover", "managed"}
  /\ step \in 0..Len(Order)
  /\ \A g \in Subgraphs : local[g] \in [def : BOOLEAN, resolvers : BOOLEAN]
  /\ \A g \in Subgraphs : deployed[g] \in [def : BOOLEAN, resolvers : BOOLEAN]
  /\ published \in [Subgraphs -> BOOLEAN]
  /\ uplink \in Subgraphs
  /\ composed \in Subgraphs \cup {"none", "error"}
  /\ gateway \in Subgraphs
  /\ billQueries \in SeqUpTo(Subgraphs \cup {"failed"}, MaxRequests)

(* ------------------------------ properties ----------------------------- *)

\* Outcomes delivered so far that have an Ok key, resp. an Err key.
OkDeliveries == {i \in 1..Len(delivered) : "Ok" \in delivered[i].keys}

ErrDeliveries == {i \in 1..Len(delivered) : "Err" \in delivered[i].keys}

EmptyString == [defined |-> TRUE, text |-> <<>>]

\* C1: with sdl = "" the capability bridge.batchIntrospect is never invoked,
\* whatever the queries.
C1_EmptySdlNeverInvokes == sdl = EmptyString => calls = <<>>

\* C2: every invocation delivers exactly one outcome: done is never called a
\* second time, and it has been called once when the script has ended.
C2_ExactlyOneOutcome ==
  /\ Len(delivered) <= 1
  /\ pc = "end" => Len(delivered) = 1

\* C3 as stated: for an empty or missing SDL the outcome delivered is
\* { Err: [{ message: "SDL is empty." }] }.
C3_MessageIsSdlIsEmpty ==
  (~sdl.defined \/ sdl = EmptyString) /\ pc # "check" =>
    /\ delivered # <<>>
    /\ delivered[1] =
         [keys |-> {"Err"}, Ok |-> Undefined,
          Err |-> JSArray(<<ErrorRecord("SDL is empty.")>>)]

\* C3 as amended: for an empty or missing SDL the first outcome delivered is
\* the failure branch holding a one-element list whose record has the message
\* "Error in JS-Rust-land: SDL is empty.".
C3_FirstOutcomeIsPreconditionError ==
  (~sdl.defined \/ sdl = EmptyString) /\ pc # "check" =>
    /\ delivered # <<>>
    /\ delivered[1] =
         [keys |-> {"Err"}, Ok |-> Undefined,
          Err |-> JSArray(<<ErrorRecord("Error in JS-Rust-land: SDL is empty.")>>)]

C3_Witness ==
  /\ ~sdl.defined
  /\ pc = "try"
  /\ Len(delivered) = 1
  /\ delivered[1].Err.items[1].message = "Error in JS-Rust-land: SDL is empty."

\* C4: when the capability raises, the failure is caught and an outcome with
\* the Err branch is delivered; no exception leaves the script.
C4_RaisedIsCaught ==
  /\ pc # "uncaught"
  /\ capResult.kind = "raised" /\ pc = "end" =>
       /\ delivered # <<>>
       /\ delivered[Len(delivered)].keys = {"Err"}

C4_Witness ==
  /\ capResult = Raised(JSSingle(ErrorRecord("internal fault")))
  /\ pc = "end"
  /\ delivered = <<ErrOutcome(JSSingle(ErrorRecord("internal fault")))>>

\* C5: an invocation in which a failure occurred (precondition error or a
\* failure raised by the capability) delivers no Ok outcome.
C5_NoOkAfterFailure ==
  (~sdl.defined \/ sdl = EmptyString \/ capResult.kind = "raised") =>
    OkDeliveries = {}

\* C6: every outcome delivered with the failure branch carries under Err a
\* non-empty array of records that each have a message field.
C6_ErrIsNonEmptyRecordList ==
  \A i \in ErrDeliveries :
    /\ delivered[i].Err.kind = "array"
    /\ Len(delivered[i].Err.items) >= 1
    /\ \A j \in 1..Len(delivered[i].Err.items) :
         "message" \in delivered[i].Err.items[j].fields

\* C7: a delivered Ok array is as long as the queries list, and its i-th
\* element is the result of the i-th query.
C7_OkIsIndexAligned ==
  \A i \in OkDeliveries :
    /\ delivered[i].Ok.kind = "array"
    /\ Len(delivered[i].Ok.items) = Len(queries)
    /\ \A k \in 1..Len(queries) :
         delivered[i].Ok.items[k] = evaluate(parse(sdl), queries[k]).result

C7_Witness ==
  /\ pc = "end"
  /\ Len(queries) = 2
  /\ OkDeliveries = {1}
  /\ delivered[1].Ok.items[1].data = "Product"
  /\ delivered[1].Ok.items[2].data = "null"

\* C8 as stated: a whitespace-only SDL is rejected before any parsing or
\* evaluation work is started: the capability is not invoked for it.
C8_WhitespaceRejectedBeforeCall ==
  (sdl.defined /\ sdl.text # <<>> /\ \A i \in 1..Len(sdl.text) : sdl.text[i] = " ")
    => calls = <<>>

\* C8 as amended: a whitespace-only SDL is a non-empty string and passes the
\* precondition check: no outcome is delivered before the call, the capability
\* is invoked once with that SDL, and exactly one outcome is delivered.
C8_WhitespacePassesCheck ==
  (sdl.defined /\ sdl.text # <<>> /\ \A i \in 1..Len(sdl.text) : sdl.text[i] = " ")
    => /\ pc = "try" => delivered = <<>>
       /\ pc = "end" => /\ Len(calls) = 1
                        /\ calls[1].sdl = sdl
                        /\ Len(delivered) = 1

C8_Witness ==
  /\ sdl = [defined |-> TRUE, text |-> <<" ", " ">>]
  /\ pc = "end"
  /\ Len(calls) = 1
  /\ OkDeliveries = {1}

\* C9: nothing is retried: the capability is invoked at most once in an
\* invocation, and never again once it has raised.
C9_NoRetry ==
  [][/\ Len(calls') <= 1
     /\ capResult.kind = "raised" => calls' = calls]_vars

C9_Witness ==
  /\ capResult.kind = "raised"
  /\ pc = "end"
  /\ Len(calls) = 1
  /\ Len(delivered) = 1

\* C10: every outcome delivered has an Ok key or an Err key, never both and
\* never neither.
C10_ExactlyOneBranch ==
  \A i \in 1..Len(delivered) : delivered[i].keys \in {{"Ok"}, {"Err"}}

C10_Witness ==
  /\ pc = "end"
  /\ Len(delivered) = 2
  /\ delivered[1].keys = {"Err"}
  /\ delivered[2].keys = {"Ok"}

C13_RelaysUnchanged ==
  /\ \A i \in 1..Len(calls) : calls[i] = [sdl |-> sdl, queries |-> queries]
  /\ \A i \in OkDeliveries :
       /\ capResult.kind = "returned"
       /\ delivered[i] = [keys |-> {"Ok"}, Ok |-> capResult.value, Err |-> Undefined]
  /\ capResult.kind = "raised" /\ pc = "end" =>
       delivered[Len(delivered)] =
         [keys |-> {"Err"}, Ok |-> Undefined, Err |-> capResult.value]

C13_Witness ==
  /\ pc = "end"
  /\ Len(queries) = 2
  /\ calls = <<[sdl |-> sdl, queries |-> queries]>>
  /\ capResult.kind = "returned"
  /\ Len(capResult.value.items) = 1
  /\ delivered = <<[keys |-> {"Ok"}, Ok |-> capResult.value, Err |-> Undefined]>>

\* C12: after every step of either migration runbook, taken in the documented
\* order, Bill is resolvable: the subgraph that the gateway's supergraph gives
\* as the origin of Bill has the Bill definition and its resolvers deployed.
C12_BillResolvableAfterEveryStep ==
  runbook \in {"rover", "managed"} =>
    deployed[gateway].def /\ deployed[gateway].resolvers

====
